---- MODULE Spec2Model ----
(***************************************************************************)
(* Model of the two experiment scripts                                     *)
(*   src/experiment1_prediction_horizon.py                                 *)
(*   src/experiment2_fairness_divergence.py                                *)
(*                                                                         *)
(* Arithmetic.  The scripts compute with Python floats on integer inputs.  *)
(* Every quantity is a rational with a small fixed denominator, so the     *)
(* model computes exactly in scaled integers:                              *)
(*   divergence, fairness         units of 1/10000     (0.42  -> 4200)     *)
(*   link_efficiency              units of 1/400       (0.95  -> 380)      *)
(*   prediction_error_ms, latency units of 1/9000 ms   (0.4   -> 3600)     *)
(*   error_penalty                units of 1/90000     (1.0   -> 90000)    *)
(*   throughput                   units of 950/36000000 Mbps               *)
(*                                (link_efficiency * (1 - error_penalty)   *)
(*                                 in units 1/400 * 1/90000, the constant  *)
(*                                 factor base_throughput_mbps = 950 is    *)
(*                                 carried by the unit)                    *)
(*   improvement percentages      exact fractions [num, den]               *)
(* The float results differ from these exact values by less than 1e-12,    *)
(* and agree with them on every sign and comparison used below.            *)
(***************************************************************************)
EXTENDS Integers, Sequences, FiniteSets, TLC

VARIABLES
    horizons,               \* experiment 1: the list of horizons (line 49)
    results,                \* experiment 1: the list of result dicts (line 50)
    link_efficiency,        \* experiment 1: local of the latest call (lines 18-30)
    optimal,                \* experiment 1: the selected result (line 67)
    pc1,                    \* experiment 1: position of the script
    key_cycles,             \* experiment 2: the list of cycles (line 92)
    results_no_mitigation,  \* experiment 2: the unmitigated results (line 97)
    result_with_mitigation, \* experiment 2: the mitigated result (line 112)
    improvement_D,          \* experiment 2: line 123
    improvement_J,          \* experiment 2: line 125
    pc2                     \* experiment 2: position of the script

vars == <<horizons, results, link_efficiency, optimal, pc1,
          key_cycles, results_no_mitigation, result_with_mitigation,
          improvement_D, improvement_J, pc2>>

vars1 == <<horizons, results, link_efficiency, optimal, pc1>>

vars2 == <<key_cycles, results_no_mitigation, result_with_mitigation,
           improvement_D, improvement_J, pc2>>

(***************************************************************************)
(* Bounds of the input domains.                                            *)
(***************************************************************************)
MaxTau == 260

\* how many negative cycle indices the inputs include
MaxNegative == 3

MaxCycle == 125

Min(a, b) == IF a < b THEN a ELSE b

Max(a, b) == IF a > b THEN a ELSE b

(***************************************************************************)
(* Experiment 1: simulate_prediction_horizon                               *)
(***************************************************************************)

\* prediction_error_ms = 0.4 * (1 + tau_pred / 60) ** 2, in 1/9000 ms
prediction_error_ms(tau_pred) == (60 + tau_pred) * (60 + tau_pred)

\* a plausible slip: the ramp term is dropped and the decay has the wrong sign
link_efficiency_flat(tau_pred) ==
    IF tau_pred < 20 THEN 320
    ELSE IF tau_pred < 60 THEN 380
    ELSE 380 + 2 * (tau_pred - 60)

\* the three-branch link efficiency, in 1/400
link_efficiency_of(tau_pred) ==
    IF tau_pred < 20 THEN 320 + 3 * tau_pred
    ELSE IF tau_pred < 60 THEN 380
    ELSE 380 - 2 * (tau_pred - 60)

\* a plausible slip: the penalty divides by 100 instead of 10
error_penalty_div100(tau_pred) == prediction_error_ms(tau_pred) \div 10

\* error_penalty = prediction_error_ms / 10, in 1/90000
error_penalty(tau_pred) == prediction_error_ms(tau_pred)

\* throughput_mbps = base_throughput_mbps * link_efficiency * (1 - error_penalty)
throughput_mbps(tau_pred) ==
    link_efficiency_of(tau_pred) * (90000 - error_penalty(tau_pred))

\* latency_ms = base_latency_ms + prediction_error_ms * 2, in 1/9000 ms
latency_ms(tau_pred) == 63000 + prediction_error_ms(tau_pred) * 2

simulate_prediction_horizon(tau_pred) ==
    [throughput       |-> throughput_mbps(tau_pred),
     latency          |-> latency_ms(tau_pred),
     prediction_error |-> prediction_error_ms(tau_pred)]

\* a plausible slip: >= keeps the last maximal element instead of the first
RECURSIVE max_last(_, _, _)
max_last(seq, i, best) ==
    IF i > Len(seq) THEN best
    ELSE IF seq[i].throughput >= best.throughput
         THEN max_last(seq, i + 1, seq[i])
         ELSE max_last(seq, i + 1, best)

\* Python's max(iterable, key=...): scans left to right and replaces the
\* current best only by a strictly greater key
RECURSIVE max_scan(_, _, _)
max_scan(seq, i, best) ==
    IF i > Len(seq) THEN best
    ELSE IF seq[i].throughput > best.throughput
         THEN max_scan(seq, i + 1, seq[i])
         ELSE max_scan(seq, i + 1, best)

max_by_throughput_last(seq) == max_last(seq, 2, seq[1])

max_by_throughput(seq) == max_scan(seq, 2, seq[1])

None1 == [horizon |-> -1, throughput |-> 0, latency |-> 0, prediction_error |-> 0]

ReportHorizons == <<10, 30, 45, 60, 90>>

HorizonInputs ==
    {ReportHorizons} \cup {<<>>} \cup
    {<<a>> : a \in 0..MaxTau} \cup
    {<<a, b>> : a \in 0..MaxTau, b \in 0..MaxTau}

InitHorizonVars ==
    /\ horizons \in HorizonInputs
    /\ results = <<>>
    /\ link_efficiency = 0
    /\ optimal = None1
    /\ pc1 = "loop"

\* lines 52-59: one iteration of the for loop
HorizonLoop ==
    /\ pc1 = "loop"
    /\ Len(results) < Len(horizons)
    /\ LET tau == horizons[Len(results) + 1]
           metrics == simulate_prediction_horizon(tau)
       IN  /\ results' = Append(results,
                  [horizon          |-> tau,
                   throughput       |-> metrics.throughput,
                   latency          |-> metrics.latency,
                   prediction_error |-> metrics.prediction_error])
           /\ link_efficiency' = link_efficiency_of(tau)
    /\ UNCHANGED <<horizons, optimal, pc1>>
    /\ UNCHANGED vars2

\* line 67: optimal = max(results, key=...)
FindOptimal ==
    /\ pc1 = "loop"
    /\ Len(results) = Len(horizons)
    /\ Len(results) > 0
    /\ optimal' = max_by_throughput(results)
    /\ pc1' = "done"
    /\ UNCHANGED <<horizons, results, link_efficiency>>
    /\ UNCHANGED vars2

\* line 67 on an empty list: max() raises ValueError
FindOptimalEmpty ==
    /\ pc1 = "loop"
    /\ Len(results) = Len(horizons)
    /\ Len(results) = 0
    /\ pc1' = "ValueError"
    /\ UNCHANGED <<horizons, results, link_efficiency, optimal>>
    /\ UNCHANGED vars2

(***************************************************************************)
(* Experiment 2: simulate_fairness_collapse                                *)
(***************************************************************************)

\* a plausible slip: the residual offset 0.05 is forgotten
mitigated_no_residual(cycle_num) ==
    [cycle      |-> cycle_num,
     divergence |-> Min(cycle_num * 14, 2000),
     fairness   |-> Max(9600 - cycle_num * 5, 9000)]

\* a plausible slip: the cap and the floor are forgotten
mitigated_uncapped(cycle_num) ==
    [cycle      |-> cycle_num,
     divergence |-> 500 + cycle_num * 14,
     fairness   |-> 9600 - cycle_num * 5]

\* a plausible slip: the residual offset is 0.06
mitigated_residual6(cycle_num) ==
    [cycle      |-> cycle_num,
     divergence |-> Min(600 + cycle_num * 14, 2000),
     fairness   |-> Max(9600 - cycle_num * 5, 9000)]

\* lines 5-23: the with_mitigation branch
mitigated(cycle_num) ==
    [cycle      |-> cycle_num,
     divergence |-> Min(500 + cycle_num * 14, 2000),
     fairness   |-> Max(9600 - cycle_num * 5, 9000)]

\* a plausible slip: the first test is cycle_num <= 0
unmitigated_le0(cycle_num) ==
    IF cycle_num <= 0 THEN
        [cycle |-> cycle_num, divergence |-> 0, fairness |-> 9600]
    ELSE IF cycle_num <= 50 THEN
        [cycle      |-> cycle_num,
         divergence |-> cycle_num * 84,
         fairness   |-> 9600 - cycle_num * 50]
    ELSE IF cycle_num <= 65 THEN
        [cycle      |-> cycle_num,
         divergence |-> 4200 + (cycle_num - 50) * 73,
         fairness   |-> 7100 - (cycle_num - 50) * 153]
    ELSE
        [cycle      |-> cycle_num,
         divergence |-> 5300 + (cycle_num - 65) * 169,
         fairness   |-> Max(4800 - (cycle_num - 65) * 83, 1500)]

\* a plausible slip: phase 2 restarts from a lower divergence and the
\* phase 3 floor is forgotten
unmitigated_broken(cycle_num) ==
    IF cycle_num = 0 THEN
        [cycle |-> cycle_num, divergence |-> 0, fairness |-> 9600]
    ELSE IF cycle_num <= 50 THEN
        [cycle      |-> cycle_num,
         divergence |-> cycle_num * 84,
         fairness   |-> 9600 - cycle_num * 50]
    ELSE IF cycle_num <= 65 THEN
        [cycle      |-> cycle_num,
         divergence |-> 4000 + (cycle_num - 50) * 73,
         fairness   |-> 7100 - (cycle_num - 50) * 153]
    ELSE
        [cycle      |-> cycle_num,
         divergence |-> 5300 + (cycle_num - 65) * 169,
         fairness   |-> 4800 - (cycle_num - 65) * 83]

\* lines 27-80: the four-branch unmitigated path
unmitigated(cycle_num) ==
    IF cycle_num = 0 THEN
        [cycle |-> cycle_num, divergence |-> 0, fairness |-> 9600]
    ELSE IF cycle_num <= 50 THEN
        [cycle      |-> cycle_num,
         divergence |-> cycle_num * 84,
         fairness   |-> 9600 - cycle_num * 50]
    ELSE IF cycle_num <= 65 THEN
        [cycle      |-> cycle_num,
         divergence |-> 4200 + (cycle_num - 50) * 73,
         fairness   |-> 7100 - (cycle_num - 50) * 153]
    ELSE
        [cycle      |-> cycle_num,
         divergence |-> 5300 + (cycle_num - 65) * 169,
         fairness   |-> Max(4800 - (cycle_num - 65) * 83, 1500)]

simulate_fairness_collapse(cycle_num, with_mitigation) ==
    IF with_mitigation THEN mitigated(cycle_num) ELSE unmitigated(cycle_num)

\* lines 123-124: (baseline D - mitigated D) / baseline D * 100, kept as the
\* exact fraction num/den of the quotient; the percentage is 100 * num / den
improvement_D_of(baseline, mitigation) ==
    [num |-> baseline.divergence - mitigation.divergence,
     den |-> baseline.divergence]

\* a plausible slip: relative to the mitigated fairness
improvement_J_of_mitigated(baseline, mitigation) ==
    [num |-> mitigation.fairness - baseline.fairness,
     den |-> mitigation.fairness]

\* lines 125-126: (mitigated J - baseline J) / baseline J * 100
improvement_J_of(baseline, mitigation) ==
    [num |-> mitigation.fairness - baseline.fairness,
     den |-> baseline.fairness]

None2 == [cycle |-> 0, divergence |-> 0, fairness |-> 0]

NoRatio == [num |-> 0, den |-> 0]

ReportCycles == <<0, 50, 65, 100>>

CycleInputs ==
    {ReportCycles} \cup
    {<<a>> : a \in (-MaxNegative)..MaxCycle} \cup
    {<<a, b>> : a \in (-MaxNegative)..MaxCycle, b \in (-MaxNegative)..MaxCycle}

InitFairnessVars ==
    /\ key_cycles \in CycleInputs
    /\ results_no_mitigation = <<>>
    /\ result_with_mitigation = None2
    /\ improvement_D = NoRatio
    /\ improvement_J = NoRatio
    /\ pc2 = "loop"

\* lines 99-101: one iteration of the for loop
CycleLoop ==
    /\ pc2 = "loop"
    /\ Len(results_no_mitigation) < Len(key_cycles)
    /\ LET cycle == key_cycles[Len(results_no_mitigation) + 1]
       IN  results_no_mitigation' =
               Append(results_no_mitigation,
                      simulate_fairness_collapse(cycle, FALSE))
    /\ UNCHANGED <<key_cycles, result_with_mitigation, improvement_D,
                   improvement_J, pc2>>
    /\ UNCHANGED vars1

\* lines 111-112: the mitigated sample at the cycle of the last baseline
\* sample (the literal 100 of the script is the last key cycle)
EvalMitigated ==
    /\ pc2 = "loop"
    /\ Len(results_no_mitigation) = Len(key_cycles)
    /\ result_with_mitigation' =
           simulate_fairness_collapse(key_cycles[Len(key_cycles)], TRUE)
    /\ pc2' = "compare"
    /\ UNCHANGED <<key_cycles, results_no_mitigation, improvement_D,
                   improvement_J>>
    /\ UNCHANGED vars1

baseline_sample == results_no_mitigation[Len(results_no_mitigation)]

\* lines 123-126
ComputeImprovements ==
    /\ pc2 = "compare"
    /\ baseline_sample.divergence # 0
    /\ improvement_D' = improvement_D_of(baseline_sample, result_with_mitigation)
    /\ improvement_J' = improvement_J_of(baseline_sample, result_with_mitigation)
    /\ pc2' = "done"
    /\ UNCHANGED <<key_cycles, results_no_mitigation, result_with_mitigation>>
    /\ UNCHANGED vars1

\* line 123 with a zero baseline divergence: ZeroDivisionError
ComputeImprovementsZero ==
    /\ pc2 = "compare"
    /\ baseline_sample.divergence = 0
    /\ pc2' = "ZeroDivisionError"
    /\ UNCHANGED <<key_cycles, results_no_mitigation, result_with_mitigation,
                   improvement_D, improvement_J>>
    /\ UNCHANGED vars1

(***************************************************************************)
(* Specifications: one per script.                                         *)
(***************************************************************************)
IdleFairnessVars ==
    /\ key_cycles = <<>>
    /\ results_no_mitigation = <<>>
    /\ result_with_mitigation = None2
    /\ improvement_D = NoRatio
    /\ improvement_J = NoRatio
    /\ pc2 = "idle"

IdleHorizonVars ==
    /\ horizons = <<>>
    /\ results = <<>>
    /\ link_efficiency = 0
    /\ optimal = None1
    /\ pc1 = "idle"

InitHorizon == InitHorizonVars /\ IdleFairnessVars

NextHorizon == HorizonLoop \/ FindOptimal \/ FindOptimalEmpty

SpecHorizon == InitHorizon /\ [][NextHorizon]_vars

InitFairness == InitFairnessVars /\ IdleHorizonVars

NextFairness ==
    CycleLoop \/ EvalMitigated \/ ComputeImprovements \/ ComputeImprovementsZero

SpecFairness == InitFairness /\ [][NextFairness]_vars

Init == InitFairness

Next == NextFairness

Spec == SpecFairness

(***************************************************************************)
(* Properties.                                                             *)
(***************************************************************************)

\* the percentage 100 * num / den rounded to two decimals, in 1/100 percent
\* (used on positive fractions only)
Percent2(r) == (2 * r.num * 10000 + r.den) \div (2 * r.den)

MitigatedEvaluated == pc2 \in {"compare", "done", "ZeroDivisionError"}

\* C1: the unmitigated samples at cycles 50, 65 and 100 are the anchor
\* values D=0.42 J=0.71, D=0.53 J=0.48 and D=1.12 J=0.19.
C1_AnchorValues ==
    \A i \in 1..Len(results_no_mitigation) :
        LET r == results_no_mitigation[i]
        IN  /\ r.cycle = 50 => r.divergence = 4200 /\ r.fairness = 7100
            /\ r.cycle = 65 => r.divergence = 5300 /\ r.fairness = 4800
            /\ r.cycle = 100 => r.divergence = 11200 /\ r.fairness = 1900

C4_Original ==
    /\ \A i \in 1..Len(results_no_mitigation) :
           results_no_mitigation[i].cycle = 0 =>
               /\ results_no_mitigation[i].divergence = 0
               /\ results_no_mitigation[i].fairness = 9600
    /\ (MitigatedEvaluated /\ result_with_mitigation.cycle = 0) =>
           /\ result_with_mitigation.divergence = 0
           /\ result_with_mitigation.fairness = 9600
           /\ result_with_mitigation = baseline_sample

\* C4 amended: at cycle 0 the unmitigated path returns D = 0.0, J = 0.96 and
\* the mitigated path returns D = 0.05, J = 0.96: the fairness agrees, the
\* divergence differs by the residual offset.
C4_Amended ==
    /\ \A i \in 1..Len(results_no_mitigation) :
           results_no_mitigation[i].cycle = 0 =>
               /\ results_no_mitigation[i].divergence = 0
               /\ results_no_mitigation[i].fairness = 9600
    /\ (MitigatedEvaluated /\ result_with_mitigation.cycle = 0) =>
           /\ result_with_mitigation.divergence = 500
           /\ result_with_mitigation.fairness = 9600
           /\ result_with_mitigation.fairness = baseline_sample.fairness

C4_Witness ==
    /\ pc2 = "ZeroDivisionError"
    /\ baseline_sample.cycle = 0
    /\ result_with_mitigation.cycle = 0

\* C5: over the horizons 10, 30, 45, 60, 90 the selected sample is the one
\* with horizon 30, whose throughput is strictly greater than the other
\* four; in general the selected sample is the first one in input order
\* whose throughput is the maximum.
C5_FirstArgmax ==
    pc1 = "done" =>
        /\ \E i \in 1..Len(results) :
               /\ optimal = results[i]
               /\ \A j \in 1..Len(results) :
                      results[j].throughput <= optimal.throughput
               /\ \A j \in 1..(i - 1) :
                      results[j].throughput < optimal.throughput
        /\ horizons = ReportHorizons =>
               /\ optimal.horizon = 30
               /\ \A j \in 1..Len(results) :
                      results[j].horizon # 30 =>
                          results[j].throughput < optimal.throughput

C5_Witness ==
    /\ pc1 = "done"
    /\ horizons = ReportHorizons
    /\ Len(results) = 5
    /\ optimal.horizon = 30

\* C6: for consecutive cycles c, c+1 with c >= 0 the unmitigated fairness
\* does not increase and the unmitigated divergence does not decrease, and
\* the unmitigated fairness stays within [0.15, 0.96].
C6_Monotone ==
    /\ \A i \in 1..(Len(results_no_mitigation) - 1) :
           LET r == results_no_mitigation[i]
               n == results_no_mitigation[i + 1]
           IN  (r.cycle >= 0 /\ n.cycle = r.cycle + 1) =>
                   /\ n.fairness <= r.fairness
                   /\ n.divergence >= r.divergence
    /\ \A i \in 1..Len(results_no_mitigation) :
           results_no_mitigation[i].cycle >= 0 =>
               /\ results_no_mitigation[i].fairness >= 1500
               /\ results_no_mitigation[i].fairness <= 9600

C6_Witness ==
    /\ Len(results_no_mitigation) = 2
    /\ results_no_mitigation[1].cycle = 65
    /\ results_no_mitigation[2].cycle = 66
    /\ results_no_mitigation[2].divergence > results_no_mitigation[1].divergence

\* C7: for c >= 0 the mitigated path returns D = min(0.05 + 0.0014*c, 0.20)
\* and J = max(0.96 - 0.0005*c, 0.90): D never exceeds 0.20, J never drops
\* below 0.90, and at cycle 100 the result is D = 0.19, J = 0.91 with
\* neither limit active.
C7_Mitigated ==
    (MitigatedEvaluated /\ result_with_mitigation.cycle >= 0) =>
        LET c == result_with_mitigation.cycle
            D == result_with_mitigation.divergence
            J == result_with_mitigation.fairness
        IN  /\ D <= 2000
            /\ J >= 9000
            /\ 500 + 14 * c <= 2000 => D = 500 + 14 * c
            /\ 500 + 14 * c > 2000 => D = 2000
            /\ 9600 - 5 * c >= 9000 => J = 9600 - 5 * c
            /\ 9600 - 5 * c < 9000 => J = 9000
            /\ c = 100 => D = 1900 /\ J = 9100 /\ D < 2000 /\ J > 9000

C7_Witness ==
    /\ pc2 = "done"
    /\ result_with_mitigation.cycle = 100
    /\ result_with_mitigation.divergence = 1900
    /\ result_with_mitigation.fairness = 9100

\* C8: between two successive calls the link efficiency strictly increases
\* with tau on [0, 20), is 0.95 on [20, 60) and strictly decreases with tau
\* for tau >= 60.
C8_Efficiency ==
    [][(pc1 = "loop" /\ Len(results) >= 1 /\ Len(results') = Len(results) + 1) =>
          LET a  == results[Len(results)].horizon
              ea == link_efficiency
              b  == results'[Len(results')].horizon
              eb == link_efficiency'
          IN  /\ (0 <= a /\ a < b /\ b < 20) => ea < eb
              /\ (20 <= a /\ a < 60) => ea = 380
              /\ (20 <= b /\ b < 60) => eb = 380
              /\ (60 <= a /\ a < b) => ea > eb]_vars

C8_Witness ==
    /\ Len(results) = 2
    /\ results[1].horizon = 60
    /\ results[2].horizon = 61
    /\ link_efficiency = 378

\* C9: for integer tau >= 0 the throughput is strictly negative exactly when
\* 240 < tau < 250; it is zero at 240 and at 250 and strictly positive for
\* tau > 250.
C9_NegativeBand ==
    \A i \in 1..Len(results) :
        LET t  == results[i].horizon
            th == results[i].throughput
        IN  /\ th < 0 <=> (240 < t /\ t < 250)
            /\ t <= 240 => th >= 0
            /\ t = 240 => th = 0
            /\ t = 250 => th = 0
            /\ t > 250 => th > 0

C9_Witness ==
    /\ Len(results) = 2
    /\ results[1].horizon = 245
    /\ results[1].throughput < 0
    /\ results[2].horizon = 251
    /\ results[2].throughput > 0

\* C10: for c >= 0 the mitigated divergence is strictly lower than the
\* unmitigated divergence exactly when c >= 8 (strictly higher for c in
\* 0..7), and the mitigated fairness is never below the unmitigated one.
C10_MitigationEffect ==
    (MitigatedEvaluated /\ result_with_mitigation.cycle >= 0) =>
        LET c == result_with_mitigation.cycle
        IN  /\ baseline_sample.cycle = c
            /\ result_with_mitigation.divergence < baseline_sample.divergence
                   <=> c >= 8
            /\ c <= 7 =>
                   result_with_mitigation.divergence > baseline_sample.divergence
            /\ result_with_mitigation.fairness >= baseline_sample.fairness

C10_Witness ==
    /\ pc2 = "done"
    /\ result_with_mitigation.cycle = 8
    /\ result_with_mitigation.divergence < baseline_sample.divergence

====
